---------------------------- MODULE Spec2Model ----------------------------
(***************************************************************************)
(* Model of the comparison tool: request validation (models.py), the live  *)
(* analyzer with its retry loop and response normalizer (analyzer.py), the *)
(* stub analyzer (mock_analyzer.py) and the /compare handler with its      *)
(* error classification (main.py).                                         *)
(*                                                                         *)
(* A text is a sequence of atoms (strings).  The atom " " is whitespace;   *)
(* every other atom stands for a run of non-blank characters or for a      *)
(* fixed phrase of the source.  Python's str.strip, str.lower and the "in" *)
(* substring test are modelled atom by atom.                               *)
(***************************************************************************)
EXTENDS Integers, Sequences, FiniteSets, TLC

(***************************************************************************)
(* Bounds of the model.                                                    *)
(***************************************************************************)
MaxOptions == 3
MaxCriteria == 2

(***************************************************************************)
(* Text helpers.                                                           *)
(***************************************************************************)
None == <<>>
Some(x) == <<x>>

IsBlank(c) == c = " "

RECURSIVE LStrip(_)
LStrip(s) ==
    IF s = <<>> THEN <<>>
    ELSE IF IsBlank(Head(s)) THEN LStrip(Tail(s)) ELSE s

RECURSIVE RStrip(_)
RStrip(s) ==
    IF s = <<>> THEN <<>>
    ELSE IF IsBlank(s[Len(s)]) THEN RStrip(SubSeq(s, 1, Len(s) - 1)) ELSE s

\* str.strip()
Strip(s) == RStrip(LStrip(s))

LowerAtom(c) ==
    CASE c = "A" -> "a"
      [] c = "B" -> "b"
      [] c = "C" -> "c"
      [] c = "Rate limit" -> "rate limit"
      [] c = "QUOTA" -> "quota"
      [] c = "API key" -> "api key"
      [] c = "Authentication" -> "authentication"
      [] c = "Model" -> "model"
      [] c = "Not Found" -> "not found"
      [] OTHER -> c

\* str.lower()
Lower(s) == [i \in 1..Len(s) |-> LowerAtom(s[i])]

\* needle in haystack, for a one-atom needle
Contains(s, atom) == \E i \in 1..Len(s) : s[i] = atom

\* the contiguous-subsequence test, for a needle of any length
IsSubText(needle, s) ==
    \E i \in 0..(Len(s) - Len(needle)) :
        \A k \in 1..Len(needle) : s[i + k] = needle[k]

\* Python truthiness of a str
Truthy(s) == s # <<>>

\* "not v or not v.strip()"
EmptyOrBlank(s) == ~Truthy(s) \/ ~Truthy(Strip(s))

\* the element of a one-element set: Only({e : x \in {v}}) is e with x
\* standing for the value of v, computed once
Only(S) == CHOOSE x \in S : TRUE

Range(s) == {s[i] : i \in 1..Len(s)}

SeqsUpTo(S, n) == UNION {[1..k -> S] : k \in 0..n}

(***************************************************************************)
(* models.py: ComparisonRequest and its validators.  A validator returns   *)
(* either the cleaned value or the message of the ValueError it raises.    *)
(***************************************************************************)
Ok(v) == [raised |-> FALSE, msg |-> <<>>, value |-> v]
Err(m) == [raised |-> TRUE, msg |-> <<m>>, value |-> <<>>]

question_must_not_be_empty(v) ==
    IF EmptyOrBlank(v) THEN Err("Question cannot be empty")
    ELSE Ok(Strip(v))

HasDuplicates(keys) ==
    Cardinality(Range(keys)) # Len(keys)

\* the options validator with a case-sensitive uniqueness test
options_case_sensitive_unique(v) ==
    IF Len(v) < 2 THEN Err("At least 2 options are required")
    ELSE IF \E i \in 1..Len(v) : EmptyOrBlank(v[i])
        THEN Err("Options cannot be empty")
    ELSE IF HasDuplicates([i \in 1..Len(v) |-> Strip(v[i])])
        THEN Err("Options must be unique")
    ELSE Ok([i \in 1..Len(v) |-> Strip(v[i])])

\* min_items=2 of the field and the validator's own length test reject the
\* same lists; either way the field yields one error.
options_must_be_unique_and_non_empty(v) ==
    IF Len(v) < 2 THEN Err("At least 2 options are required")
    ELSE IF \E i \in 1..Len(v) : EmptyOrBlank(v[i])
        THEN Err("Options cannot be empty")
    ELSE IF HasDuplicates([i \in 1..Len(v) |-> Strip(Lower(v[i]))])
        THEN Err("Options must be unique")
    ELSE Ok([i \in 1..Len(v) |-> Strip(v[i])])

\* the criteria validator storing the keys of its uniqueness test
criteria_stored_lowercase(v) ==
    IF Len(v) < 1 THEN Err("At least 1 criterion is required")
    ELSE IF \E i \in 1..Len(v) : EmptyOrBlank(v[i])
        THEN Err("Criteria cannot be empty")
    ELSE IF HasDuplicates([i \in 1..Len(v) |-> Strip(Lower(v[i]))])
        THEN Err("Criteria must be unique")
    ELSE Ok([i \in 1..Len(v) |-> Strip(Lower(v[i]))])

criteria_must_be_unique_and_non_empty(v) ==
    IF Len(v) < 1 THEN Err("At least 1 criterion is required")
    ELSE IF \E i \in 1..Len(v) : EmptyOrBlank(v[i])
        THEN Err("Criteria cannot be empty")
    ELSE IF HasDuplicates([i \in 1..Len(v) |-> Strip(Lower(v[i]))])
        THEN Err("Criteria must be unique")
    ELSE Ok([i \in 1..Len(v) |-> Strip(v[i])])

\* The fields are validated independently, in declaration order; each
\* failing field contributes one (loc, msg) error.
FieldResults(raw) ==
    << [loc |-> "body -> question",
        res |-> question_must_not_be_empty(raw.question)],
       [loc |-> "body -> options",
        res |-> options_must_be_unique_and_non_empty(raw.options)],
       [loc |-> "body -> criteria",
        res |-> criteria_must_be_unique_and_non_empty(raw.criteria)] >>

\* the collection stopping at the first failing field
CollectFirstError(fs) ==
    IF fs = <<>> THEN <<>>
    ELSE IF Head(fs).res.raised
        THEN <<[loc |-> Head(fs).loc, msg |-> Head(fs).res.msg]>>
    ELSE IF Len(fs) > 1 /\ fs[2].res.raised
        THEN <<[loc |-> fs[2].loc, msg |-> fs[2].res.msg]>>
    ELSE IF Len(fs) > 2 /\ fs[3].res.raised
        THEN <<[loc |-> fs[3].loc, msg |-> fs[3].res.msg]>>
    ELSE <<>>

RECURSIVE CollectErrors(_)
CollectErrors(fs) ==
    IF fs = <<>> THEN <<>>
    ELSE IF Head(fs).res.raised
        THEN <<[loc |-> Head(fs).loc, msg |-> Head(fs).res.msg]>>
                 \o CollectErrors(Tail(fs))
    ELSE CollectErrors(Tail(fs))

\* exc.errors() of the RequestValidationError
ValidationErrors(raw) == CollectErrors(FieldResults(raw))

\* The ComparisonRequest handed to compare() when no field failed.
NormalizedRequest(raw) ==
    [question |-> question_must_not_be_empty(raw.question).value,
     options |-> options_must_be_unique_and_non_empty(raw.options).value,
     criteria |-> criteria_must_be_unique_and_non_empty(raw.criteria).value,
     context |-> raw.context]



(***************************************************************************)
(* Decoded JSON values.  Every value is a record of the same shape; t is   *)
(* the JSON type, s the text of a string, l the items of a list and o the  *)
(* members of an object (a function from member name to value).            *)
(***************************************************************************)
JNull == [t |-> "null", s |-> <<>>, l |-> <<>>, o |-> <<>>]
JStr(x) == [t |-> "str", s |-> x, l |-> <<>>, o |-> <<>>]
JList(xs) == [t |-> "list", s |-> <<>>, l |-> xs, o |-> <<>>]
JObj(f) == [t |-> "obj", s |-> <<>>, l |-> <<>>, o |-> f]

\* member names are texts too, so that option names can be member names
K(name) == <<name>>

HasKey(v, k) == k \in DOMAIN v.o

\* dict.get(k, d) on a decoded object
Get(v, k, d) == IF HasKey(v, k) THEN v.o[k] ELSE d

\* type(v).__name__ as it appears in an AttributeError
PyTypeName(v) ==
    CASE v.t = "null" -> "NoneType"
      [] v.t = "str" -> "str"
      [] v.t = "list" -> "list"
      [] OTHER -> "dict"

AttributeErrorGet(v) == <<PyTypeName(v), "object has no attribute 'get'">>

(***************************************************************************)
(* The raw text of the backend, as a sequence of tokens: free prose "txt", *)
(* the braces, a blank, a line break "nl", a backslash "bs", and "members" *)
(* - the well-formed member list of a JSON object, carrying its decoded    *)
(* value in j.                                                             *)
(***************************************************************************)
Tok(c) == [c |-> c, j |-> JNull]
Members(v) == [c |-> "members", j |-> v]

\* str.find: the first position of the token, 0 when absent (Python: -1)
RECURSIVE FindFrom(_, _, _)
FindFrom(text, c, i) ==
    IF i > Len(text) THEN 0
    ELSE IF text[i].c = c THEN i ELSE FindFrom(text, c, i + 1)

Find(text, c) == FindFrom(text, c, 1)

\* str.rfind(c) + 1: one past the last position, 0 when absent
RECURSIVE RFindFrom(_, _, _)
RFindFrom(text, c, i) ==
    IF i < 1 THEN 0
    ELSE IF text[i].c = c THEN i ELSE RFindFrom(text, c, i - 1)

RFindEnd(text, c) == RFindFrom(text, c, Len(text))

\* json_text.replace('\n', ' ').replace('\\', '\\\\')
RECURSIVE CleanJson(_)
CleanJson(toks) ==
    IF toks = <<>> THEN <<>>
    ELSE IF Head(toks).c = "nl" THEN <<Tok(" ")>> \o CleanJson(Tail(toks))
    ELSE IF Head(toks).c = "bs"
        THEN <<Tok("bs"), Tok("bs")>> \o CleanJson(Tail(toks))
    ELSE <<Head(toks)>> \o CleanJson(Tail(toks))

RECURSIVE DropWhitespace(_)
DropWhitespace(toks) ==
    IF toks = <<>> THEN <<>>
    ELSE IF Head(toks).c \in {" ", "nl"} THEN DropWhitespace(Tail(toks))
    ELSE <<Head(toks)>> \o DropWhitespace(Tail(toks))

\* json.loads: one object, whitespace allowed around its parts
JsonLoads(toks) ==
    LET core == DropWhitespace(toks) IN
    IF Len(core) = 2 /\ core[1].c = "{" /\ core[2].c = "}"
        THEN [raised |-> FALSE, value |-> JObj(<<>>)]
    ELSE IF Len(core) = 3 /\ core[1].c = "{" /\ core[2].c = "members"
                /\ core[3].c = "}"
        THEN [raised |-> FALSE, value |-> core[2].j]
    ELSE [raised |-> TRUE, value |-> JNull]

\* a fallback structure without the fixed trade-offs message
FallbackDataNoMessage ==
    JObj((K("options") :> JObj(<<>>)) @@ (K("context_notes") :> JNull))

FallbackData ==
    JObj((K("options") :> JObj(<<>>))
         @@ (K("trade_offs")
                :> JStr(<<"Analysis parsing failed. Please try again.">>))
         @@ (K("context_notes") :> JNull))

\* LLMAnalyzer._parse_llm_response
_parse_llm_response(response_text) ==
    LET start_idx == Find(response_text, "{")
        end_idx == RFindEnd(response_text, "}")
    IN  IF start_idx = 0 \/ end_idx = 0 THEN FallbackData
        ELSE LET json_text == CleanJson(SubSeq(response_text, start_idx, end_idx))
                 decoded == JsonLoads(json_text)
             IN  IF decoded.raised THEN FallbackData ELSE decoded.value

(***************************************************************************)
(* models.py: OptionAnalysis and ComparisonResponse.  Constructing a model *)
(* validates every field and raises one ValidationError that lists the     *)
(* failing fields; a result carries raised, the message and the value.     *)
(***************************************************************************)
Good(v) == [raised |-> FALSE, msg |-> <<>>, value |-> v]
Bad(m) == [raised |-> TRUE, msg |-> m, value |-> <<>>]

\* a str field given a decoded value: null and non-strings are type errors
StrField(v) ==
    CASE v.t = "str" -> Good(v.s)
      [] v.t = "null" -> Bad(<<"none is not an allowed value">>)
      [] OTHER -> Bad(<<"str type expected">>)

\* a List[str] field given a decoded list
ListOfStrField(v) ==
    IF \E i \in 1..Len(v.l) : v.l[i].t = "null"
        THEN Bad(<<"none is not an allowed value">>)
    ELSE IF \E i \in 1..Len(v.l) : v.l[i].t # "str"
        THEN Bad(<<"str type expected">>)
    ELSE Good([i \in 1..Len(v.l) |-> v.l[i].s])

strengths_must_not_be_empty(v) ==
    Only({
          IF typed.raised THEN typed
          ELSE IF typed.value = <<>> THEN Bad(<<"Strengths list cannot be empty">>)
          ELSE IF \E i \in 1..Len(typed.value) : EmptyOrBlank(typed.value[i])
              THEN Bad(<<"Individual strengths cannot be empty">>)
          ELSE Good([i \in 1..Len(typed.value) |-> Strip(typed.value[i])]) :
      typed \in {ListOfStrField(v)} })

weaknesses_must_not_be_empty(v) ==
    Only({
          IF typed.raised THEN typed
          ELSE IF typed.value = <<>> THEN Bad(<<"Weaknesses list cannot be empty">>)
          ELSE IF \E i \in 1..Len(typed.value) : EmptyOrBlank(typed.value[i])
              THEN Bad(<<"Individual weaknesses cannot be empty">>)
          ELSE Good([i \in 1..Len(typed.value) |-> Strip(typed.value[i])]) :
      typed \in {ListOfStrField(v)} })

explanation_must_not_be_empty(v) ==
    Only({
          IF typed.raised THEN typed
          ELSE IF EmptyOrBlank(typed.value) THEN Bad(<<"Explanation cannot be empty">>)
          ELSE Good(Strip(typed.value)) :
      typed \in {StrField(v)} })

\* OptionAnalysis(strengths=..., weaknesses=..., explanation=...)
OptionAnalysis(strengths, weaknesses, explanation) ==
    Only({ IF s.raised \/ w.raised \/ e.raised
               THEN Bad(<<"validation error for OptionAnalysis">>
                           \o s.msg \o w.msg \o e.msg)
           ELSE Good([strengths |-> s.value, weaknesses |-> w.value,
                      explanation |-> e.value]) :
           s \in {strengths_must_not_be_empty(strengths)},
           w \in {weaknesses_must_not_be_empty(weaknesses)},
           e \in {explanation_must_not_be_empty(explanation)} })

analysis_must_not_be_empty(v) ==
    IF DOMAIN v = {} THEN Bad(<<"Analysis cannot be empty">>) ELSE Good(v)

trade_offs_must_not_be_empty(v) ==
    Only({
          IF typed.raised THEN typed
          ELSE IF EmptyOrBlank(typed.value)
              THEN Bad(<<"Trade-offs analysis cannot be empty">>)
          ELSE Good(Strip(typed.value)) :
      typed \in {StrField(v)} })

\* Optional[str]: None stays None, a string is kept, anything else fails
OptionalStrField(v) ==
    CASE v.t = "null" -> Good(None)
      [] v.t = "str" -> Good(Some(v.s))
      [] OTHER -> Bad(<<"str type expected">>)

\* ComparisonResponse(question=..., analysis=..., trade_offs=..., context_notes=...)
ComparisonResponse(question, analysis, trade_offs, context_notes) ==
    Only({ IF a.raised \/ t.raised \/ c.raised
               THEN Bad(<<"validation error for ComparisonResponse">>
                           \o a.msg \o t.msg \o c.msg)
           ELSE Good([question |-> question, analysis |-> a.value,
                      trade_offs |-> t.value, context_notes |-> c.value]) :
           a \in {analysis_must_not_be_empty(analysis)},
           t \in {trade_offs_must_not_be_empty(trade_offs)},
           c \in {OptionalStrField(context_notes)} })

(***************************************************************************)
(* analyzer.py: LLMAnalyzer._build_comparison_response.                    *)
(***************************************************************************)
DefaultStrengths == JList(<<JStr(<<"Strong capabilities in key areas">>)>>)
DefaultWeaknesses == JList(<<JStr(<<"May require additional consideration">>)>>)
DefaultExplanation(option) ==
    JStr(option \o <<" offers a balanced approach with distinct advantages for specific use cases.">>)
DefaultTradeOffs ==
    JStr(<<"Each option offers distinct advantages. Consider your specific requirements and constraints when making a decision.">>)

\* "if not isinstance(x, list) or not x: x = default"
EnsureList(v, default) ==
    IF v.t # "list" \/ v.l = <<>> THEN default ELSE v

\* the loop body falling back to all three placeholders as soon as the
\* entry lacks its strengths
BuildOptionAllOrNothing(option, options_data) ==
    Only({
      IF option_data.t # "obj" THEN Bad(AttributeErrorGet(option_data))
      ELSE IF ~HasKey(option_data, K("strengths"))
          THEN OptionAnalysis(DefaultStrengths, DefaultWeaknesses,
                              DefaultExplanation(option))
      ELSE LET strengths == Get(option_data, K("strengths"), DefaultStrengths)
               weaknesses == Get(option_data, K("weaknesses"), DefaultWeaknesses)
               explanation == Get(option_data, K("explanation"),
                                  DefaultExplanation(option))
           IN  OptionAnalysis(EnsureList(strengths, DefaultStrengths),
                              EnsureList(weaknesses, DefaultWeaknesses),
                              explanation) :
      option_data \in {Get(options_data, option, JObj(<<>>))} })

\* one pass of the loop body for an option, options_data being an object
BuildOption(option, options_data) ==
    Only({
      IF option_data.t # "obj" THEN Bad(AttributeErrorGet(option_data))
      ELSE LET strengths == Get(option_data, K("strengths"), DefaultStrengths)
               weaknesses == Get(option_data, K("weaknesses"), DefaultWeaknesses)
               explanation == Get(option_data, K("explanation"),
                                  DefaultExplanation(option))
           IN  OptionAnalysis(EnsureList(strengths, DefaultStrengths),
                              EnsureList(weaknesses, DefaultWeaknesses),
                              explanation) :
      option_data \in {Get(options_data, option, JObj(<<>>))} })

\* the loop leaving out the options the backend gave no entry for
RECURSIVE BuildAnalysisDecodedOnly(_, _, _)
BuildAnalysisDecodedOnly(options, options_data, acc) ==
    IF options = <<>> THEN Good(acc)
    ELSE IF options_data.t # "obj" THEN Bad(AttributeErrorGet(options_data))
    ELSE IF ~HasKey(options_data, Head(options))
        THEN BuildAnalysisDecodedOnly(Tail(options), options_data, acc)
    ELSE LET one == BuildOption(Head(options), options_data) IN
         IF one.raised THEN one
         ELSE BuildAnalysisDecodedOnly(Tail(options), options_data,
                                       (Head(options) :> one.value) @@ acc)

\* the loop "for option in options": the first exception leaves the loop
RECURSIVE BuildAnalysis(_, _, _)
BuildAnalysis(options, options_data, acc) ==
    IF options = <<>> THEN Good(acc)
    ELSE IF options_data.t # "obj" THEN Bad(AttributeErrorGet(options_data))
    ELSE Only({ IF one.raised THEN one
                ELSE BuildAnalysis(Tail(options), options_data,
                                   (Head(options) :> one.value) @@ acc) :
                one \in {BuildOption(Head(options), options_data)} })

\* the context notes without the "null" / "None" sentinel test
ContextNotesNoSentinel(analysis_data, context) ==
    IF context # None /\ Truthy(context[1])
        THEN Get(analysis_data, K("context_notes"), JNull)
        ELSE JNull

\* the context notes taken from the decoded data whether or not the request
\* had a context
ContextNotesAlways(analysis_data, context) ==
    LET got == Get(analysis_data, K("context_notes"), JNull)
    IN  IF got.t = "str" /\ got.s \in {<<"null">>, <<"None">>} THEN JNull
        ELSE got

\* "analysis_data.get('context_notes') if context else None", then the
\* "null" / "None" sentinels
ContextNotes(analysis_data, context) ==
    LET got == IF context # None /\ Truthy(context[1])
                   THEN Get(analysis_data, K("context_notes"), JNull)
                   ELSE JNull
    IN  IF got.t = "str" /\ got.s \in {<<"null">>, <<"None">>} THEN JNull
        ELSE got

_build_comparison_response(question, options, analysis_data, context) ==
    LET options_data == Get(analysis_data, K("options"), JObj(<<>>)) IN
    Only({ IF analysis.raised THEN analysis
           ELSE ComparisonResponse(
                    question, analysis.value,
                    Get(analysis_data, K("trade_offs"), DefaultTradeOffs),
                    ContextNotes(analysis_data, context)) :
           analysis \in {BuildAnalysis(options, options_data, <<>>)} })

(***************************************************************************)
(* mock_analyzer.py: MockAnalyzer.analyze_options.                         *)
(***************************************************************************)
\* criteria[i] if the list is long enough, else the fixed word (0-based i)
CriterionOr(criteria, i, word) ==
    IF Len(criteria) > i THEN criteria[i + 1] ELSE <<word>>

LastCriterionOr(criteria, word) ==
    IF criteria # <<>> THEN criteria[Len(criteria)] ELSE <<word>>

JoinComma(xs) ==
    LET RECURSIVE J(_)
        J(ys) == IF ys = <<>> THEN <<>>
                 ELSE IF Len(ys) = 1 THEN Head(ys)
                 ELSE Head(ys) \o <<", ">> \o J(Tail(ys))
    IN J(xs)

MockOption(option, criteria) ==
    OptionAnalysis(
        JList(<< JStr(<<"Strong performance in ">> \o CriterionOr(criteria, 0, "key areas")),
                 JStr(<<"Good ">> \o CriterionOr(criteria, 1, "value proposition")),
                 JStr(<<"Reliable ">> \o CriterionOr(criteria, 2, "solution")) >>),
        JList(<< JStr(<<"Higher ">> \o LastCriterionOr(criteria, "cost")
                        \o <<" compared to alternatives">>),
                 JStr(<<"Learning curve for ">>
                        \o CriterionOr(criteria, 0, "implementation")) >>),
        JStr(option \o <<" offers a balanced approach with strong capabilities in ">>
                \o CriterionOr(criteria, 0, "core functionality")
                \o <<". While it may require more investment in ">>
                \o LastCriterionOr(criteria, "setup")
                \o <<", it provides solid long-term value for your use case.">>))

RECURSIVE MockAnalysis(_, _, _)
MockAnalysis(options, criteria, acc) ==
    IF options = <<>> THEN Good(acc)
    ELSE LET one == MockOption(Head(options), criteria) IN
         IF one.raised THEN one
         ELSE MockAnalysis(Tail(options), criteria,
                           (Head(options) :> one.value) @@ acc)

\* the stub never adding context notes
MockContextNotesNever(context) == JNull

MockContextNotes(context) ==
    IF context # None /\ Truthy(context[1])
        THEN JStr(<<"Given your context (">> \o context[1]
                    \o <<"), focus on solutions that balance immediate needs with long-term scalability.">>)
    ELSE JNull

MockAnalyzer_analyze_options(question, options, criteria, context) ==
    LET analysis == MockAnalysis(options, criteria, <<>>)
        trade_offs ==
            JStr(<<"When choosing between ">> \o JoinComma(options)
                    \o <<", consider your priorities around ">>
                    \o (IF Len(criteria) >= 2
                            THEN JoinComma(SubSeq(criteria, 1, 2))
                            ELSE <<"key factors">>)
                    \o <<". Each option has distinct advantages that align with different use cases and constraints.">>)
    IN  IF analysis.raised THEN analysis
        ELSE ComparisonResponse(question, analysis.value, trade_offs,
                                MockContextNotes(context))

(***************************************************************************)
(* analyzer.py: LLMAnalyzer configuration, prompt and retry policy.        *)
(***************************************************************************)
\* one attempt more than the configured number
max_retries_plus_one == 3 + 1

max_retries == 3
retry_delay == 1

\* the same delay before every retry
BackoffDelayFlat(attempt) == retry_delay

\* "self.retry_delay * (2 ** attempt)", attempt counted from 0
BackoffDelay(attempt) == retry_delay * (2 ^ attempt)

\* the exception carrying no error text of the attempt
ExhaustedErrorBare(e) ==
    <<"LLM analysis failed after ", ToString(max_retries), " attempts: ">>

\* the exception _get_llm_response raises once the last attempt has failed
ExhaustedError(e) ==
    <<"LLM analysis failed after ", ToString(max_retries), " attempts: ">> \o e

\* LLMAnalyzer._build_analysis_prompt
_build_analysis_prompt(question, options, criteria, context) ==
    <<"Analyze these options briefly. No winner declarations.", "Question: ">>
        \o question
        \o <<"Options: ">> \o JoinComma(options)
        \o <<"Criteria: ">> \o JoinComma(criteria)
        \o (IF context # None /\ Truthy(context[1])
                THEN <<"Context: ">> \o context[1] ELSE <<>>)
        \o <<"JSON only:", "options">> \o options[1]
        \o (IF Len(options) > 1 THEN options[2] ELSE <<>>)
        \o <<"trade_offs", "context_notes">>
        \o (IF context # None /\ Truthy(context[1])
                THEN <<"Brief context note.">> ELSE <<"null">>)

(***************************************************************************)
(* main.py: analyzer selection at start-up and the error envelope.         *)
(***************************************************************************)
USE_MOCK_MODE == FALSE

\* LLMAnalyzer() raises ValueError without an API key; the stub takes over
SelectAnalyzer(api_key_set) ==
    IF USE_MOCK_MODE THEN "mock"
    ELSE IF api_key_set THEN "llm" ELSE "mock"

\* the health answer that reports no analyzer at all
HealthResponseNone(type) ==
    [status |-> 200,
     body |-> [status |-> "healthy", service |-> "comparison-tool-api",
               analyzer |-> "none"]]

\* the body health_check returns, under the analyzer type chosen at start-up
HealthResponse(type) ==
    [status |-> 200,
     body |-> [status |-> "healthy", service |-> "comparison-tool-api",
               analyzer |-> type]]

NoBody == [question |-> <<>>, analysis |-> <<>>, trade_offs |-> <<>>,
           context_notes |-> None]

NoResponse == [status |-> 0, error |-> <<>>, message |-> <<>>,
               details |-> <<>>, body |-> NoBody]

\* str(status_code)
StatusText(status_code) == ToString(status_code)

\* http_exception_handler applied to HTTPException(status_code, detail)
HttpError(status_code, detail) ==
    [status |-> status_code, error |-> <<"HTTP ", StatusText(status_code)>>,
     message |-> detail, details |-> <<>>, body |-> NoBody]

\* the except branch testing the authentication keywords before the quota ones
ClassifyErrorAuthFirst(kind, error_message) ==
    IF kind = "llm" THEN
        IF Contains(Lower(error_message), "api key")
              \/ Contains(Lower(error_message), "authentication")
            THEN HttpError(401, <<"Invalid API key. Please check your OpenAI API key configuration.">>)
        ELSE IF Contains(Lower(error_message), "rate limit")
              \/ Contains(Lower(error_message), "quota")
            THEN HttpError(429, <<"OpenAI API quota exceeded. Please check your billing and usage limits at https://platform.openai.com/account/billing">>)
        ELSE IF Contains(Lower(error_message), "model")
              /\ Contains(Lower(error_message), "not found")
            THEN HttpError(400, <<"Model not available. Your API key may not have access to the requested model.">>)
        ELSE HttpError(500, <<"LLM service error: ">> \o error_message)
    ELSE HttpError(500, <<"Analysis error: ">> \o error_message)

\* the except branch of compare(): error text to HTTPException
ClassifyError(kind, error_message) ==
    IF kind = "llm" THEN
        IF Contains(Lower(error_message), "rate limit")
              \/ Contains(Lower(error_message), "quota")
            THEN HttpError(429, <<"OpenAI API quota exceeded. Please check your billing and usage limits at https://platform.openai.com/account/billing">>)
        ELSE IF Contains(Lower(error_message), "api key")
              \/ Contains(Lower(error_message), "authentication")
            THEN HttpError(401, <<"Invalid API key. Please check your OpenAI API key configuration.">>)
        ELSE IF Contains(Lower(error_message), "model")
              /\ Contains(Lower(error_message), "not found")
            THEN HttpError(400, <<"Model not available. Your API key may not have access to the requested model.">>)
        ELSE HttpError(500, <<"LLM service error: ">> \o error_message)
    ELSE HttpError(500, <<"Analysis error: ">> \o error_message)

\* validation_exception_handler: one "<loc>: <msg>" entry per error
RECURSIVE FormatErrors(_)
FormatErrors(errs) ==
    IF errs = <<>> THEN <<>>
    ELSE << <<Head(errs).loc, ": ">> \o Head(errs).msg >>
             \o FormatErrors(Tail(errs))

ValidationFailed(errs) ==
    [status |-> 422, error |-> <<"Validation failed">>,
     message |-> <<"Request contains invalid data">>,
     details |-> FormatErrors(errs), body |-> NoBody]

Success(result) ==
    [status |-> 200, error |-> <<>>, message |-> <<>>, details |-> <<>>,
     body |-> result]

(***************************************************************************)
(* The inputs: request bodies a client may post, and what the backend may  *)
(* answer (a raw text, or an error with a message).                        *)
(***************************************************************************)
Questions == {<<" ">>, <<" ", "q">>}
OptionTexts == {<<" ">>, <<"a">>, <<"A", " ">>, <<"b">>}
CriterionTexts == {<<>>, <<"c">>, <<" ", "C">>}
Contexts == {None, Some(<<>>), Some(<<"x">>)}

RawRequests ==
    [question : Questions,
     options : SeqsUpTo(OptionTexts, MaxOptions),
     criteria : SeqsUpTo(CriterionTexts, MaxCriteria),
     context : Contexts]

BackendErrors ==
    { <<"Rate limit", " exceeded">>,
      <<"QUOTA", " reached for ", "API key">>,
      <<"Invalid ", "API key">>,
      <<"Authentication", " failed: ", "model", " ", "not found">>,
      <<"Model", " sonar ", "Not Found">>,
      <<"model", " overloaded">>,
      <<"Connection timed out">> }

With(obj, k, v) == JObj((k :> v) @@ obj.o)
Without(obj, k) == JObj([x \in (DOMAIN obj.o) \ {k} |-> obj.o[x]])

GoodEntry ==
    JObj((K("strengths") :> JList(<<JStr(<<"fast">>), JStr(<<"simple", " ">>)>>))
         @@ (K("weaknesses") :> JList(<<JStr(<<" ", "costly">>)>>))
         @@ (K("explanation") :> JStr(<<"a solid choice">>)))

EntryVariants ==
    { JObj(<<>>), JNull, JStr(<<"fast">>), JList(<<>>),
      With(GoodEntry, K("strengths"), JList(<<>>)),
      With(GoodEntry, K("strengths"), JStr(<<"fast">>)),
      With(GoodEntry, K("strengths"), JNull),
      With(GoodEntry, K("strengths"), JList(<<JStr(<<>>)>>)),
      With(GoodEntry, K("strengths"), JList(<<JNull>>)),
      Without(GoodEntry, K("strengths")),
      With(GoodEntry, K("weaknesses"), JList(<<>>)),
      With(GoodEntry, K("weaknesses"), JList(<<JStr(<<" ">>)>>)),
      Without(GoodEntry, K("weaknesses")),
      With(GoodEntry, K("explanation"), JStr(<<>>)),
      With(GoodEntry, K("explanation"), JStr(<<" ">>)),
      With(GoodEntry, K("explanation"), JNull),
      With(GoodEntry, K("explanation"), JList(<<>>)),
      Without(GoodEntry, K("explanation")) }

GoodOptions == JObj((<<"a">> :> GoodEntry) @@ (<<"b">> :> GoodEntry))

OptionsVariants ==
    { JObj(<<>>), JNull, JStr(<<"a">>), JList(<<>>),
      Without(GoodOptions, <<"a">>),
      With(GoodOptions, <<"z">>, GoodEntry) }
        \cup { With(GoodOptions, <<"a">>, e) : e \in EntryVariants }

GoodPayload ==
    JObj((K("options") :> GoodOptions)
         @@ (K("trade_offs") :> JStr(<<"speed against cost", " ">>))
         @@ (K("context_notes") :> JStr(<<"fits the context">>)))

Payloads ==
    { GoodPayload, Without(GoodPayload, K("options")),
      Without(GoodPayload, K("trade_offs")),
      Without(GoodPayload, K("context_notes")) }
        \cup { With(GoodPayload, K("options"), o) : o \in OptionsVariants }
        \cup { With(GoodPayload, K("trade_offs"), t) :
                    t \in {JStr(<<>>), JStr(<<" ">>), JNull, JList(<<>>)} }
        \cup { With(GoodPayload, K("context_notes"), c) :
                    c \in {JNull, JStr(<<"null">>), JStr(<<"None">>),
                           JList(<<>>)} }

\* texts that hold no structured object, or a span that does not decode
MalformedTexts ==
    { <<>>, <<Tok("txt")>>, <<Tok("{")>>, <<Tok("}")>>,
      <<Tok("}"), Tok("txt"), Tok("{")>>,
      <<Tok("{"), Tok("txt"), Tok("}")>>,
      <<Tok("{"), Members(GoodPayload)>>,
      <<Tok("{"), Members(GoodPayload), Tok("}"), Tok("txt"), Tok("}")>>,
      <<Tok("{"), Tok("bs"), Members(GoodPayload), Tok("}")>> }

DecodableTexts ==
    { <<Tok("{"), Members(p), Tok("}")>> : p \in Payloads }
        \cup { <<Tok("{"), Tok("}")>>,
               <<Tok("txt"), Tok("{"), Tok("nl"), Members(GoodPayload),
                 Tok("nl"), Tok("}"), Tok("txt")>> }

BackendTexts == MalformedTexts \cup DecodableTexts

\* a small workload: one rejected body and two accepted ones, a backend that
\* answers with a good text, an undecodable one or one the normalizer fails
\* on, and two kinds of backend error
FewRequests ==
    { [question |-> <<" ", "q">>, options |-> <<<<"a">>>>,
       criteria |-> <<<<"c">>>>, context |-> None],
      [question |-> <<" ", "q">>, options |-> <<<<"a">>, <<"b">>>>,
       criteria |-> <<<<"c">>>>, context |-> None],
      [question |-> <<" ", "q">>, options |-> <<<<"A", " ">>, <<"b">>>>,
       criteria |-> <<<<" ", "C">>>>, context |-> Some(<<"x">>)] }

FewTexts ==
    { <<Tok("{"), Members(GoodPayload), Tok("}")>>,
      <<Tok("txt")>>,
      <<Tok("{"), Members(With(GoodPayload, K("trade_offs"), JNull)),
        Tok("}")>> }

FewErrors == { <<"Rate limit", " exceeded">>, <<"Connection timed out">> }

RequestPool(w) == IF w = "full" THEN RawRequests ELSE FewRequests
TextPool(w) == IF w = "full" THEN BackendTexts ELSE FewTexts
ErrorPool(w) == IF w = "full" THEN BackendErrors ELSE FewErrors

(***************************************************************************)
(* State.                                                                  *)
(***************************************************************************)
VARIABLES
    api_key,        \* whether PERPLEXITY_API_KEY is configured
    analyzer_type,  \* "llm" or "mock", chosen at start-up
    health,         \* the last answer of GET /health, None before the first
    workload,       \* "full" or "few": the pool the inputs are drawn from
    pc,             \* per request: its position in the orchestration
    raw,            \* per request: the posted body
    request,        \* per request: the validated ComparisonRequest
    prompt,         \* per request: the prompt built for the backend
    attempt,        \* per request: the loop variable of _get_llm_response
    calls,          \* per request: backend invocations issued so far
    errors,         \* per request: messages of the failed attempts, in order
    delays,         \* per request: the sleeps taken, in order
    response_text,  \* per request: the text of the successful attempt
    analysis_data,  \* per request: the result of _parse_llm_response
    exc,            \* per request: the exception caught by compare()
    response        \* per request: the answer sent to the client

vars == <<api_key, analyzer_type, health, workload, pc, raw, request, prompt, attempt, calls,
          errors, delays, response_text, analysis_data, exc, response>>

\* the requests in flight: the keys of the per-request state
Requests == DOMAIN pc

NoRequest == [question |-> <<>>, options |-> <<>>, criteria |-> <<>>,
              context |-> None]

\* one request is followed through the orchestration
OneRequest == {1}

\* the state after start-up, with the requests ids idle and the inputs drawn
\* from workload w
InitFor(ids, w) ==
    /\ api_key \in BOOLEAN
    /\ analyzer_type = SelectAnalyzer(api_key)
    /\ health = None
    /\ workload = w
    /\ pc = [r \in ids |-> "Idle"]
    /\ raw = [r \in ids |-> NoRequest]
    /\ request = [r \in ids |-> NoRequest]
    /\ prompt = [r \in ids |-> <<>>]
    /\ attempt = [r \in ids |-> 0]
    /\ calls = [r \in ids |-> 0]
    /\ errors = [r \in ids |-> <<>>]
    /\ delays = [r \in ids |-> <<>>]
    /\ response_text = [r \in ids |-> <<>>]
    /\ analysis_data = [r \in ids |-> JNull]
    /\ exc = [r \in ids |-> <<>>]
    /\ response = [r \in ids |-> NoResponse]

Init == InitFor(OneRequest, "full")

(***************************************************************************)
(* Actions.                                                                *)
(***************************************************************************)
\* POST /compare arrives with a body
Receive(r) ==
    /\ pc[r] = "Idle"
    /\ \E body \in RequestPool(workload) : raw' = [raw EXCEPT ![r] = body]
    /\ pc' = [pc EXCEPT ![r] = "Received"]
    /\ UNCHANGED <<api_key, analyzer_type, health, workload, request, prompt, attempt, calls,
                   errors, delays, response_text, analysis_data, exc, response>>

\* the body is validated against ComparisonRequest before compare() runs
Validate(r) ==
    /\ pc[r] = "Received"
    /\ LET errs == ValidationErrors(raw[r]) IN
       IF errs # <<>>
         THEN /\ pc' = [pc EXCEPT ![r] = "Rejected"]
              /\ response' = [response EXCEPT ![r] = ValidationFailed(errs)]
              /\ UNCHANGED request
         ELSE /\ pc' = [pc EXCEPT ![r] = "Validated"]
              /\ request' = [request EXCEPT ![r] = NormalizedRequest(raw[r])]
              /\ UNCHANGED response
    /\ UNCHANGED <<api_key, analyzer_type, health, workload, raw, prompt, attempt, calls, errors,
                   delays, response_text, analysis_data, exc>>

\* compare() with the attempt counter kept on the shared analyzer: starting a
\* request resets the counter every request in flight reads
CompareLiveSharedAttempt(r) ==
    /\ pc[r] = "Validated"
    /\ analyzer_type = "llm"
    /\ prompt' = [prompt EXCEPT ![r] =
            _build_analysis_prompt(request[r].question, request[r].options,
                                   request[r].criteria, request[r].context)]
    /\ attempt' = [x \in DOMAIN attempt |-> 0]
    /\ calls' = [calls EXCEPT ![r] = @ + 1]
    /\ pc' = [pc EXCEPT ![r] = "BackendCall"]
    /\ UNCHANGED <<api_key, analyzer_type, health, workload, raw, request, errors, delays,
                   response_text, analysis_data, exc, response>>

\* compare() with the live analyzer: the prompt is built and the first
\* attempt of _get_llm_response is issued
CompareLive(r) ==
    /\ pc[r] = "Validated"
    /\ analyzer_type = "llm"
    /\ prompt' = [prompt EXCEPT ![r] =
            _build_analysis_prompt(request[r].question, request[r].options,
                                   request[r].criteria, request[r].context)]
    /\ attempt' = [attempt EXCEPT ![r] = 0]
    /\ calls' = [calls EXCEPT ![r] = @ + 1]
    /\ pc' = [pc EXCEPT ![r] = "BackendCall"]
    /\ UNCHANGED <<api_key, analyzer_type, health, workload, raw, request, errors, delays,
                   response_text, analysis_data, exc, response>>

\* compare() with the stub analyzer: the whole analysis is synthesized
CompareMock(r) ==
    /\ pc[r] = "Validated"
    /\ analyzer_type = "mock"
    /\ calls' = [calls EXCEPT ![r] = @ + 1]
    /\ LET result == MockAnalyzer_analyze_options(
                         request[r].question, request[r].options,
                         request[r].criteria, request[r].context)
       IN  IF result.raised
             THEN /\ exc' = [exc EXCEPT ![r] = result.msg]
                  /\ response' = [response EXCEPT ![r] =
                                     ClassifyError(analyzer_type, result.msg)]
                  /\ pc' = [pc EXCEPT ![r] = "Failed"]
             ELSE /\ response' = [response EXCEPT ![r] = Success(result.value)]
                  /\ pc' = [pc EXCEPT ![r] = "Normalized"]
                  /\ UNCHANGED exc
    /\ UNCHANGED <<api_key, analyzer_type, health, workload, raw, request, prompt, attempt,
                   errors, delays, response_text, analysis_data>>

\* the backend answers the attempt in progress with a text
BackendSucceed(r) ==
    /\ pc[r] = "BackendCall"
    /\ \E text \in TextPool(workload) :
            response_text' = [response_text EXCEPT ![r] = text]
    /\ pc' = [pc EXCEPT ![r] = "BackendReturned"]
    /\ UNCHANGED <<api_key, analyzer_type, health, workload, raw, request, prompt, attempt, calls,
                   errors, delays, analysis_data, exc, response>>

\* the attempt in progress fails: back off, or give up after the last one
BackendFail(r) ==
    /\ pc[r] = "BackendCall"
    /\ \E e \in ErrorPool(workload) : errors' = [errors EXCEPT ![r] = Append(@, e)]
    /\ LET e == errors'[r][Len(errors'[r])] IN
       IF attempt[r] = max_retries - 1
         THEN /\ exc' = [exc EXCEPT ![r] = ExhaustedError(e)]
              /\ response' = [response EXCEPT ![r] =
                                 ClassifyError(analyzer_type, ExhaustedError(e))]
              /\ pc' = [pc EXCEPT ![r] = "Failed"]
              /\ UNCHANGED delays
         ELSE /\ delays' = [delays EXCEPT ![r] = Append(@, BackoffDelay(attempt[r]))]
              /\ pc' = [pc EXCEPT ![r] = "Backoff"]
              /\ UNCHANGED <<exc, response>>
    /\ UNCHANGED <<api_key, analyzer_type, health, workload, raw, request, prompt, attempt, calls,
                   response_text, analysis_data>>

\* the sleep ends and the response text is taken as returned, with no attempt
RetrySkipsBackend(r) ==
    /\ pc[r] = "Backoff"
    /\ attempt' = [attempt EXCEPT ![r] = @ + 1]
    /\ calls' = [calls EXCEPT ![r] = @ + 1]
    /\ pc' = [pc EXCEPT ![r] = "BackendReturned"]
    /\ UNCHANGED <<api_key, analyzer_type, health, workload, raw, request, prompt, errors, delays,
                   response_text, analysis_data, exc, response>>

\* the sleep ends and the next attempt is issued
Retry(r) ==
    /\ pc[r] = "Backoff"
    /\ attempt' = [attempt EXCEPT ![r] = @ + 1]
    /\ calls' = [calls EXCEPT ![r] = @ + 1]
    /\ pc' = [pc EXCEPT ![r] = "BackendCall"]
    /\ UNCHANGED <<api_key, analyzer_type, health, workload, raw, request, prompt, errors, delays,
                   response_text, analysis_data, exc, response>>

\* _parse_llm_response then _build_comparison_response; an exception of
\* either reaches the except branch of compare()
Normalize(r) ==
    /\ pc[r] = "BackendReturned"
    /\ \E data \in {_parse_llm_response(response_text[r])} :
       \E result \in {_build_comparison_response(
                          request[r].question, request[r].options, data,
                          request[r].context)} :
           /\ analysis_data' = [analysis_data EXCEPT ![r] = data]
           /\ IF result.raised
                THEN /\ exc' = [exc EXCEPT ![r] = result.msg]
                     /\ response' = [response EXCEPT ![r] =
                                        ClassifyError(analyzer_type, result.msg)]
                     /\ pc' = [pc EXCEPT ![r] = "Failed"]
                ELSE /\ response' = [response EXCEPT ![r] = Success(result.value)]
                     /\ pc' = [pc EXCEPT ![r] = "Normalized"]
                     /\ UNCHANGED exc
    /\ UNCHANGED <<api_key, analyzer_type, health, workload, raw, request, prompt, attempt, calls,
                   errors, delays, response_text>>

\* compare() returns the result and the 200 response goes out
Respond(r) ==
    /\ pc[r] = "Normalized"
    /\ pc' = [pc EXCEPT ![r] = "Responded"]
    /\ UNCHANGED <<api_key, analyzer_type, health, workload, raw, request, prompt, attempt, calls,
                   errors, delays, response_text, analysis_data, exc, response>>

\* GET /health
health_check ==
    /\ health' = Some(HealthResponse(analyzer_type))
    /\ UNCHANGED <<api_key, analyzer_type, workload, pc, raw, request,
                   prompt, attempt, calls, errors, delays, response_text, analysis_data, exc,
                   response>>

Next ==
    \/ health_check
    \/ \E r \in Requests :
        \/ Receive(r)
        \/ Validate(r)
        \/ CompareLive(r)
        \/ CompareMock(r)
        \/ BackendSucceed(r)
        \/ BackendFail(r)
        \/ Retry(r)
        \/ Normalize(r)
        \/ Respond(r)

Spec == Init /\ [][Next]_vars

\* the steps of request r once it is received: the handler runs each of them
\* to completion, the backend answers every call and every sleep ends
Step(r) ==
    \/ Validate(r)
    \/ CompareLive(r)
    \/ CompareMock(r)
    \/ BackendSucceed(r)
    \/ BackendFail(r)
    \/ Retry(r)
    \/ Normalize(r)
    \/ Respond(r)

FairInit == InitFor(OneRequest, "few")

FairSpec ==
    FairInit /\ [][Next]_vars /\ \A r \in OneRequest : WF_vars(Step(r))

\* two requests in flight at once, their steps interleaved in every way
TwoRequests == {1, 2}

ConcurrentInit == InitFor(TwoRequests, "few")

ConcurrentSpec == ConcurrentInit /\ [][Next]_vars

(***************************************************************************)
(* Properties.                                                             *)
(***************************************************************************)
Live == analyzer_type = "llm"

\* a backend invocation of request r has returned successfully
BackendAnswered(r) ==
    /\ calls[r] > Len(errors[r])
    /\ pc[r] # "BackendCall"

OptionsData(r) == Get(analysis_data[r], K("options"), JObj(<<>>))

\* C1: the normalizer never fails - once a backend call has succeeded, the
\* request is never Failed, whatever text the backend returned.
C1_NormalizerNeverFails ==
    \A r \in Requests : BackendAnswered(r) => pc[r] # "Failed"

\* C2: every 200 response has exactly one analysis entry per requested
\* option, each with non-empty strengths, weaknesses and explanation.
C2_OneEntryPerOption ==
    \A r \in Requests :
        response[r].status = 200 =>
            /\ DOMAIN response[r].body.analysis = Range(request[r].options)
            /\ \A o \in DOMAIN response[r].body.analysis :
                  /\ response[r].body.analysis[o].strengths # <<>>
                  /\ response[r].body.analysis[o].weaknesses # <<>>
                  /\ response[r].body.analysis[o].explanation # <<>>

\* a live 200 response for which the backend gave no entry for some option
C2_Witness ==
    \E r \in Requests :
        /\ pc[r] = "Responded"
        /\ Live
        /\ analysis_data[r] # FallbackData
        /\ \E o \in Range(request[r].options) : ~HasKey(OptionsData(r), o)
        /\ \E o \in Range(request[r].options) : HasKey(OptionsData(r), o)

\* the requests C3 speaks of, stated on the posted body
TooFewOptions(b) == Len(b.options) < 2
NoCriteria(b) == Len(b.criteria) = 0
EmptyQuestion(b) == Strip(b.question) = <<>>
EmptyEntry(xs) == \E i \in 1..Len(xs) : Strip(xs[i]) = <<>>
DuplicateEntry(xs) ==
    \E i, j \in 1..Len(xs) :
        i < j /\ Lower(Strip(xs[i])) = Lower(Strip(xs[j]))

InvalidBody(b) ==
    \/ TooFewOptions(b) \/ NoCriteria(b) \/ EmptyQuestion(b)
    \/ EmptyEntry(b.options) \/ EmptyEntry(b.criteria)
    \/ DuplicateEntry(b.options) \/ DuplicateEntry(b.criteria)

\* C3: an invalid request is answered 422 with non-empty details, without
\* any backend call, attempt or retry.
C3_InvalidRejected ==
    \A r \in Requests :
        (pc[r] \notin {"Idle", "Received"} /\ InvalidBody(raw[r])) =>
            /\ pc[r] = "Rejected"
            /\ response[r].status = 422
            /\ response[r].details # <<>>
            /\ calls[r] = 0
            /\ errors[r] = <<>>
            /\ delays[r] = <<>>

\* rejected only because two options differ in case and surrounding blanks
C3_Witness ==
    \E r \in Requests :
        /\ pc[r] = "Rejected"
        /\ ~TooFewOptions(raw[r]) /\ ~NoCriteria(raw[r])
        /\ ~EmptyQuestion(raw[r])
        /\ ~EmptyEntry(raw[r].options) /\ ~EmptyEntry(raw[r].criteria)
        /\ ~DuplicateEntry(raw[r].criteria)
        /\ DuplicateEntry(raw[r].options)
        /\ Cardinality(Range(raw[r].options)) = Len(raw[r].options)

\* the number of rules of the validator a body violates
RuleCount(b) ==
    Cardinality({ i \in 1..7 :
        \/ i = 1 /\ EmptyQuestion(b)
        \/ i = 2 /\ TooFewOptions(b)
        \/ i = 3 /\ EmptyEntry(b.options)
        \/ i = 4 /\ DuplicateEntry(b.options)
        \/ i = 5 /\ NoCriteria(b)
        \/ i = 6 /\ EmptyEntry(b.criteria)
        \/ i = 7 /\ DuplicateEntry(b.criteria) })

IsDetailEntry(d) == Len(d) = 3 /\ d[2] = ": "

\* C4 as stated: the details list of a 422 has one "<field path>: <message>"
\* entry for every rule the request violates.
C4_EveryViolationReported ==
    \A r \in Requests :
        pc[r] = "Rejected" =>
            /\ Len(response[r].details) = RuleCount(raw[r])
            /\ \A i \in 1..Len(response[r].details) :
                  IsDetailEntry(response[r].details[i])

Entry(path, message) == << <<path, ": ", message>> >>

\* per field, the first rule violated in the order length, non-empty, unique
ExpectedDetails(b) ==
    (IF EmptyQuestion(b)
        THEN Entry("body -> question", "Question cannot be empty") ELSE <<>>)
    \o (IF TooFewOptions(b)
            THEN Entry("body -> options", "At least 2 options are required")
        ELSE IF EmptyEntry(b.options)
            THEN Entry("body -> options", "Options cannot be empty")
        ELSE IF DuplicateEntry(b.options)
            THEN Entry("body -> options", "Options must be unique")
        ELSE <<>>)
    \o (IF NoCriteria(b)
            THEN Entry("body -> criteria", "At least 1 criterion is required")
        ELSE IF EmptyEntry(b.criteria)
            THEN Entry("body -> criteria", "Criteria cannot be empty")
        ELSE IF DuplicateEntry(b.criteria)
            THEN Entry("body -> criteria", "Criteria must be unique")
        ELSE <<>>)

\* C4 amended: the details list of a 422 has one "<field path>: <message>"
\* entry for every field that violates a rule, carrying the first rule the
\* field violates; the fields are checked independently of each other.
C4_OneEntryPerFailingField ==
    \A r \in Requests :
        pc[r] = "Rejected" =>
            /\ response[r].status = 422
            /\ response[r].details = ExpectedDetails(raw[r])
            /\ \A i \in 1..Len(response[r].details) :
                  IsDetailEntry(response[r].details[i])

\* a rejected body whose options hold both an empty entry and a duplicate,
\* and whose question is empty as well: two entries for three violations
C4_Witness ==
    \E r \in Requests :
        /\ pc[r] = "Rejected"
        /\ ~TooFewOptions(raw[r])
        /\ EmptyEntry(raw[r].options)
        /\ DuplicateEntry(raw[r].options)
        /\ EmptyQuestion(raw[r])
        /\ RuleCount(raw[r]) = 3
        /\ Len(response[r].details) = 2

\* the retry loop of request r gave up after its last attempt
Exhausted(r) == pc[r] = "Failed" /\ calls[r] = Len(errors[r])

\* C5, state part: at most 3 calls, each made only after all earlier ones
\* failed; a success leaves exactly one call more than failures; giving up
\* happens after exactly 3 failures and surfaces the third error's text.
C5_State ==
    \A r \in Requests :
        /\ calls[r] <= 3
        /\ calls[r] - Len(errors[r]) \in {0, 1}
        /\ pc[r] = "BackendCall" => Len(errors[r]) = calls[r] - 1
        /\ pc[r] = "Backoff" => Len(errors[r]) = calls[r] /\ calls[r] < 3
        /\ (Live /\ Exhausted(r)) =>
              /\ calls[r] = 3
              /\ exc[r] = <<"LLM analysis failed after ", "3", " attempts: ">>
                              \o errors[r][3]
        /\ (Live /\ pc[r] = "Failed" /\ ~Exhausted(r)) => BackendAnswered(r)

\* C5, step part: a call is issued only while no attempt has succeeded, any
\* failure before the third is followed by a retry whatever its kind, and
\* after a success no further call is made.
C5_Step ==
    \A r \in Requests :
        /\ calls'[r] # calls[r] =>
              /\ calls'[r] = calls[r] + 1
              /\ Len(errors[r]) = calls[r]
        /\ BackendAnswered(r) => calls'[r] = calls[r] /\ errors'[r] = errors[r]
        /\ (pc[r] = "BackendCall" /\ pc'[r] = "BackendReturned") =>
              response_text'[r] \in BackendTexts
        /\ (pc[r] = "BackendCall" /\ errors'[r] # errors[r] /\ calls[r] < 3) =>
              pc'[r] = "Backoff"

\* C5: the backend is called at most 3 times per request, one call after
\* another and only after failures; the first success ends the loop; three
\* failures end the request Failed with the last attempt's error text.
C5_RetryDiscipline == [](C5_State) /\ [][C5_Step]_vars

\* the loop gave up after three failures of different kinds
C5_Witness ==
    \E r \in Requests :
        /\ Exhausted(r)
        /\ Len(errors[r]) = 3
        /\ errors[r][1] # errors[r][3]
        /\ errors[r][2] # errors[r][3]
        /\ Contains(Lower(errors[r][1]), "api key")
        /\ Contains(Lower(errors[r][2]), "model")

RECURSIVE SumSeq(_)
SumSeq(s) == IF s = <<>> THEN 0 ELSE Head(s) + SumSeq(Tail(s))

\* C6: the k-th delay is base * 2^(k-1) with base 1; there is one delay
\* after each failed attempt but the last possible one, none after a
\* success, at most 2 delays totalling 3, and never two attempts at once.
C6_Backoff ==
    \A r \in Requests :
        /\ \A k \in 1..Len(delays[r]) : delays[r][k] = 1 * (2 ^ (k - 1))
        /\ Len(delays[r]) = IF Len(errors[r]) < 3 THEN Len(errors[r]) ELSE 2
        /\ Len(delays[r]) <= 2
        /\ SumSeq(delays[r]) <= 3 * 1
        /\ pc[r] = "Backoff" <=> (Len(delays[r]) = calls[r] /\ calls[r] > 0)
        /\ calls[r] - Len(errors[r]) \in {0, 1}

\* both delays were taken and the third attempt then failed
C6_Witness ==
    \E r \in Requests :
        /\ Exhausted(r)
        /\ delays[r] = <<1, 2>>
        /\ Len(errors[r]) = 3

\* the text holds the keyword, letter case aside
Mentions(text, keyword) ==
    \E i \in 1..Len(text) : LowerAtom(text[i]) = keyword

\* the status C7 gives for a final error text under the live variant
ExpectedStatus(text) ==
    IF Mentions(text, "rate limit") \/ Mentions(text, "quota") THEN 429
    ELSE IF Mentions(text, "api key") \/ Mentions(text, "authentication")
        THEN 401
    ELSE IF Mentions(text, "model") /\ Mentions(text, "not found") THEN 400
    ELSE 500

\* error texts the stub could raise, were it to fail
StubErrors == BackendErrors \cup {ExhaustedError(e) : e \in BackendErrors}

\* C7: a live failure is answered with the status its final error text
\* selects (429, else 401 naming the API key, else 400, else 500); a stub
\* failure is always 500 with the analysis-error message.
C7_Classification ==
    /\ \A r \in Requests :
          (Live /\ pc[r] = "Failed") =>
              /\ response[r].status = ExpectedStatus(exc[r])
              /\ response[r].status = 401 =>
                    Head(response[r].message) = "Invalid API key. Please check your OpenAI API key configuration."
              /\ response[r].error = <<"HTTP ", ToString(ExpectedStatus(exc[r]))>>
    /\ \A r \in Requests :
          (~Live /\ pc[r] = "Failed") =>
              /\ response[r].status = 500
              /\ Head(response[r].message) = "Analysis error: "
    /\ \A e \in StubErrors :
          /\ ClassifyError("mock", e).status = 500
          /\ Head(ClassifyError("mock", e).message) = "Analysis error: "

\* retries exhausted, the last error of the authentication kind, an earlier
\* one of the quota kind: answered 401
C7_Witness ==
    \E r \in Requests :
        /\ Live /\ Exhausted(r)
        /\ Mentions(errors[r][3], "authentication")
        /\ Mentions(errors[r][1], "quota")
        /\ response[r].status = 401

\* the failure of request r fell in the unclassified category
Unclassified(r) == pc[r] = "Failed" /\ response[r].status = 500

\* C8: an unclassified failure is answered with a generic 500 whose error
\* and message fields hold nothing of the internal error text.
C8_NoInternalDetail ==
    \A r \in Requests :
        Unclassified(r) =>
            /\ Range(response[r].message) \cap Range(exc[r]) = {}
            /\ Range(response[r].error) \cap Range(exc[r]) = {}

\* the backend text, stated on its tokens: no opening or no closing brace,
\* or a first-brace-to-last-brace span that is not one well-formed object
Span(text) == SubSeq(text, Find(text, "{"), RFindEnd(text, "}"))

WellFormed(toks) ==
    LET core == SelectSeq(toks, LAMBDA t : t.c \notin {" ", "nl"}) IN
    \/ Len(core) = 2 /\ core[1].c = "{" /\ core[2].c = "}"
    \/ Len(core) = 3 /\ core[1].c = "{" /\ core[2].c = "members"
          /\ core[3].c = "}"

Malformed(text) ==
    \/ Find(text, "{") = 0
    \/ RFindEnd(text, "}") = 0
    \/ ~WellFormed(Span(text))

FallbackMessage == <<"Analysis parsing failed. Please try again.">>

\* the backend of request r answered with a malformed text and the
\* normalizer has run
NormalizedMalformed(r) ==
    /\ Live
    /\ pc[r] \in {"Normalized", "Responded", "Failed"}
    /\ BackendAnswered(r)
    /\ Malformed(response_text[r])

\* C9 as stated: malformed backend output is answered 200 with the fallback
\* trade-offs message and an empty analysis map.
C9_MalformedEmptyAnalysis ==
    \A r \in Requests :
        NormalizedMalformed(r) =>
            /\ pc[r] # "Failed"
            /\ response[r].status = 200
            /\ response[r].body.trade_offs = FallbackMessage
            /\ DOMAIN response[r].body.analysis = {}

IsPlaceholder(entry, option) ==
    /\ entry.strengths = << <<"Strong capabilities in key areas">> >>
    /\ entry.weaknesses = << <<"May require additional consideration">> >>
    /\ entry.explanation = option \o <<" offers a balanced approach with distinct advantages for specific use cases.">>

\* C9 amended: malformed backend output never fails the request; the parse
\* step yields the fallback structure and the answer is 200 with the
\* fallback trade-offs message, no context notes, and an analysis map that
\* holds one placeholder entry for each requested option.
C9_MalformedPlaceholders ==
    \A r \in Requests :
        NormalizedMalformed(r) =>
            /\ pc[r] # "Failed"
            /\ DOMAIN analysis_data[r].o
                  = {K("options"), K("trade_offs"), K("context_notes")}
            /\ Get(analysis_data[r], K("options"), JNull) = JObj(<<>>)
            /\ Get(analysis_data[r], K("trade_offs"), JNull)
                  = JStr(FallbackMessage)
            /\ Get(analysis_data[r], K("context_notes"), JObj(<<>>)) = JNull
            /\ response[r].status = 200
            /\ response[r].body.trade_offs = FallbackMessage
            /\ response[r].body.context_notes = None
            /\ DOMAIN response[r].body.analysis = Range(request[r].options)
            /\ \A o \in Range(request[r].options) :
                  IsPlaceholder(response[r].body.analysis[o], o)

\* a span between braces that does not decode, answered 200, the request
\* having a context
C9_Witness ==
    \E r \in Requests :
        /\ NormalizedMalformed(r)
        /\ pc[r] = "Responded"
        /\ Find(response_text[r], "{") # 0
        /\ RFindEnd(response_text[r], "}") > Find(response_text[r], "{")
        /\ request[r].context = Some(<<"x">>)

\* C10: a request without context gets a response without context notes,
\* under the live and the stub variant, whatever the backend text holds.
C10_NoContextNoNotes ==
    \A r \in Requests :
        (response[r].status = 200 /\ raw[r].context = None) =>
            response[r].body.context_notes = None

\* a live 200 response to a request without context whose backend text
\* decoded to a non-null context_notes string
C10_Witness ==
    \E r \in Requests :
        /\ Live
        /\ pc[r] = "Responded"
        /\ raw[r].context = None
        /\ HasKey(analysis_data[r], K("context_notes"))
        /\ analysis_data[r].o[K("context_notes")].t = "str"
        /\ analysis_data[r].o[K("context_notes")].s \notin {<<"null">>, <<"None">>}

\* C11 as stated: under the stub, a valid request that supplies any context
\* string, the empty one included, gets non-null context notes.
C11_AnyContextGivesNotes ==
    \A r \in Requests :
        (~Live /\ response[r].status = 200 /\ raw[r].context # None) =>
            response[r].body.context_notes # None

\* C11 amended: under the stub, a valid request with a non-empty context
\* string gets non-null context notes that quote the context, and analysis
\* keys equal to its options; an empty context string gets none, as an
\* absent context does.
C11_NonEmptyContextGivesNotes ==
    \A r \in Requests :
        (~Live /\ response[r].status = 200 /\ raw[r].context # None) =>
            /\ DOMAIN response[r].body.analysis = Range(request[r].options)
            /\ raw[r].context[1] # <<>> =>
                  /\ response[r].body.context_notes # None
                  /\ IsSubText(raw[r].context[1],
                               response[r].body.context_notes[1])
            /\ raw[r].context[1] = <<>> =>
                  response[r].body.context_notes = None

\* the stub answered a request that had a non-empty context
C11_Witness ==
    \E r \in Requests :
        /\ ~Live
        /\ pc[r] = "Responded"
        /\ raw[r].context = Some(<<"x">>)
        /\ response[r].body.context_notes # None
        /\ Len(request[r].options) = 2

\* the request of r supplied a context (a non-empty one: the code tests the
\* truth value of the context)
HasContext(r) == raw[r].context # None /\ raw[r].context[1] # <<>>

DecodedNotes(r) == Get(analysis_data[r], K("context_notes"), JNull)

\* what C12 gives for the decoded context_notes: absent for an omitted key,
\* null, "null" and "None", else the decoded string itself
ExpectedNotes(r) ==
    IF ~HasKey(analysis_data[r], K("context_notes")) THEN None
    ELSE IF DecodedNotes(r).t = "null" THEN None
    ELSE IF DecodedNotes(r).t = "str"
              /\ DecodedNotes(r).s \in {<<"null">>, <<"None">>} THEN None
    ELSE Some(DecodedNotes(r).s)

C13_State ==
    /\ api_key => analyzer_type = "llm"
    /\ ~api_key => analyzer_type = "mock"
    /\ \A r \in Requests :
          /\ prompt[r] # <<>> => api_key
          /\ pc[r] \in {"BackendCall", "Backoff", "BackendReturned"} => api_key
          /\ (pc[r] = "Responded" /\ prompt[r] = <<>>) => ~api_key
    /\ health # None =>
          /\ health[1].status = 200
          /\ health[1].body.status = "healthy"
          /\ health[1].body.analyzer = "llm" <=> api_key
          /\ health[1].body.analyzer = "mock" <=> ~api_key

\* no step changes the credential seen at start-up or the selection
C13_Step == api_key' = api_key /\ analyzer_type' = analyzer_type

C14_NoKeyGives500 ==
    \A r \in Requests :
        (~api_key /\ pc[r] \in {"Responded", "Failed"}
                  /\ ~InvalidBody(raw[r])) =>
            /\ response[r].status = 500
            /\ response[r].error # <<>>
            /\ response[r].message # <<>>

Terminal == {"Responded", "Rejected", "Failed"}

\* the positions a request may move to from each position
Successors(p) ==
    CASE p = "Idle" -> {"Received"}
      [] p = "Received" -> {"Validated", "Rejected"}
      [] p = "Validated" -> {"BackendCall", "Normalized", "Failed"}
      [] p = "BackendCall" -> {"BackendReturned", "Backoff", "Failed"}
      [] p = "Backoff" -> {"BackendCall"}
      [] p = "BackendReturned" -> {"Normalized", "Failed"}
      [] p = "Normalized" -> {"Responded"}
      [] OTHER -> {}

\* each terminal state carries its kind of answer, a backend call was issued
\* only for a validated request, normalization follows a successful call,
\* and no request takes more than max_retries attempts
C15_State ==
    \A r \in Requests :
        /\ pc[r] = "Responded" => response[r].status = 200
        /\ pc[r] = "Rejected" => response[r].status = 422
        /\ pc[r] = "Failed" => response[r].status \in {400, 401, 429, 500}
        /\ pc[r] \notin Terminal \union {"Normalized"} =>
              response[r] = NoResponse
        /\ calls[r] > 0 => /\ ValidationErrors(raw[r]) = <<>>
                           /\ request[r] = NormalizedRequest(raw[r])
        /\ pc[r] \in {"BackendCall", "Backoff", "BackendReturned"} =>
              prompt[r] # <<>>
        /\ pc[r] \in {"Normalized", "Responded"} => BackendAnswered(r)
        /\ calls[r] <= max_retries

\* a request moves only along the orchestration, a backend call is issued
\* only from Validated or after a back-off, and a terminal state is final
C15_Step ==
    \A r \in Requests :
        /\ pc'[r] # pc[r] => pc'[r] \in Successors(pc[r])
        /\ calls'[r] # calls[r] =>
              /\ pc[r] \in {"Validated", "Backoff"}
              /\ calls'[r] = calls[r] + 1
        /\ pc[r] \in Terminal =>
              /\ pc'[r] = pc[r]
              /\ response'[r] = response[r]

\* C15: a received request moves only in the order validation, prompt,
\* backend attempts, normalization, response; it ends in exactly one of
\* Responded (200), Rejected (422) and Failed (an error status) and stays
\* there; and with a backend that answers every call it does end, after at
\* most 3 attempts.
C15_Orchestration ==
    /\ [](C15_State)
    /\ [][C15_Step]_vars
    /\ \A r \in OneRequest :
          (pc[r] = "Received") ~> (pc[r] \in Terminal /\ calls[r] <= 3)

\* a request that failed on its third attempt
C15_Witness ==
    \E r \in Requests : pc[r] = "Failed" /\ calls[r] = 3 /\ Len(errors[r]) = 3

\* the request of r passed validation
Accepted(r) == pc[r] \notin {"Idle", "Received", "Rejected"}

\* xs with each entry trimmed: same length, same order, same casing
Trimmed(xs) == [i \in 1..Len(xs) |-> Strip(xs[i])]

\* C16: the normalized form of an accepted request holds the question
\* trimmed, the options and the criteria each trimmed, in the input order
\* and with the input casing, and the context as posted.
C16_NormalizedRequest ==
    \A r \in Requests :
        Accepted(r) =>
            /\ request[r].question = Strip(raw[r].question)
            /\ request[r].options = Trimmed(raw[r].options)
            /\ request[r].criteria = Trimmed(raw[r].criteria)
            /\ request[r].context = raw[r].context

\* an accepted request whose option and criterion had capitals and blanks
\* around them
C16_Witness ==
    \E r \in Requests :
        /\ Accepted(r)
        /\ raw[r].options[1] = <<"A", " ">> /\ request[r].options[1] = <<"A">>
        /\ raw[r].criteria[1] = <<" ", "C">>
        /\ request[r].criteria[1] = <<"C">>
        /\ raw[r].question = <<" ", "q">> /\ request[r].question = <<"q">>

\* everything the handler of request r holds
Local(r) ==
    <<pc[r], raw[r], request[r], prompt[r], attempt[r], calls[r], errors[r],
      delays[r], response_text[r], analysis_data[r], exc[r], response[r]>>

\* the answer to body when it is processed alone by the analyzer of the given
\* type, the backend failing with errs and then (unless that exhausts the
\* attempts) answering with text
Outcome(type, body, errs, text) ==
    IF ValidationErrors(body) # <<>>
        THEN ValidationFailed(ValidationErrors(body))
    ELSE LET req == NormalizedRequest(body) IN
         IF type = "mock"
             THEN LET m == MockAnalyzer_analyze_options(
                               req.question, req.options, req.criteria,
                               req.context)
                  IN  IF m.raised THEN ClassifyError(type, m.msg)
                      ELSE Success(m.value)
         ELSE IF Len(errs) = max_retries
             THEN ClassifyError(type, ExhaustedError(errs[Len(errs)]))
         ELSE LET n == _build_comparison_response(
                           req.question, req.options,
                           _parse_llm_response(text), req.context)
              IN  IF n.raised THEN ClassifyError(type, n.msg)
                  ELSE Success(n.value)

\* every finished request has the outcome it has alone, every request in
\* flight can take its next step whatever the others are doing, and the
\* back-off of each request depends on its own failures only
C17_State ==
    \A r \in Requests :
        /\ pc[r] \in Terminal =>
              response[r] = Outcome(analyzer_type, raw[r], errors[r],
                                    response_text[r])
        /\ pc[r] \notin Terminal \union {"Idle"} => ENABLED Step(r)
        /\ calls[r] <= max_retries
        /\ delays[r] = [i \in 1..Len(delays[r]) |-> BackoffDelay(i - 1)]
        /\ Len(delays[r]) \in {Len(errors[r]), Len(errors[r]) - 1}

\* a step changes the state of one request at most, and never the
\* configuration chosen at start-up
C17_Step ==
    /\ api_key' = api_key /\ analyzer_type' = analyzer_type
    /\ \A r1, r2 \in Requests :
          (r1 # r2 /\ Local(r1)' # Local(r1)) => Local(r2)' = Local(r2)

NormalizedDecoded(r) ==
    /\ Live
    /\ pc[r] \in {"Normalized", "Responded", "Failed"}
    /\ BackendAnswered(r)
    /\ ~Malformed(response_text[r])

DecodedTradeOffs(r) == Get(analysis_data[r], K("trade_offs"), JNull)

\* the per-option part of the decoded data and its context notes are usable,
\* so that only trade_offs is left to decide the answer
RestUsable(r) ==
    /\ ~BuildAnalysis(request[r].options, OptionsData(r), <<>>).raised
    /\ Get(analysis_data[r], K("context_notes"), JNull).t \in {"null", "str"}

\* what C18 gives for trade_offs: the decoded value when it is a string
\* that is not empty or blank, else the generic fallback sentence
ExpectedTradeOffs(r) ==
    IF /\ HasKey(analysis_data[r], K("trade_offs"))
       /\ DecodedTradeOffs(r).t = "str"
       /\ ~EmptyOrBlank(DecodedTradeOffs(r).s)
        THEN Strip(DecodedTradeOffs(r).s)
        ELSE DefaultTradeOffs.s

\* C18: for decodable backend output the response's trade_offs is the
\* decoded value when present and non-empty, and the generic fallback
\* sentence when the key is missing or the value is empty or blank; it is
\* always a non-empty string.
C18_TradeOffsFallback ==
    \A r \in Requests :
        (NormalizedDecoded(r) /\ RestUsable(r)) =>
            /\ response[r].status = 200
            /\ response[r].body.trade_offs = ExpectedTradeOffs(r)
            /\ ~EmptyOrBlank(response[r].body.trade_offs)

\* the decoded entry of an option, an empty object when there is none
DecodedEntry(r, option) == Get(OptionsData(r), option, JObj(<<>>))

\* the texts of a decoded list, each trimmed
ItemTexts(v) == [i \in 1..Len(v.l) |-> Strip(v.l[i].s)]

\* a list field as C19 fills it: the decoded value if it is a non-empty
\* list, else the placeholder
FilledList(entry, k, default) ==
    IF Get(entry, k, JNull).t = "list" /\ Get(entry, k, JNull).l # <<>>
        THEN ItemTexts(Get(entry, k, JNull))
        ELSE ItemTexts(default)

\* the explanation as C19 fills it: the decoded value if present, else the
\* placeholder sentence naming the option
FilledExplanation(entry, option) ==
    IF HasKey(entry, K("explanation"))
        THEN Strip(Get(entry, K("explanation"), JNull).s)
        ELSE DefaultExplanation(option).s

ExpectedEntry(r, option) ==
    [strengths |-> FilledList(DecodedEntry(r, option), K("strengths"),
                              DefaultStrengths),
     weaknesses |-> FilledList(DecodedEntry(r, option), K("weaknesses"),
                               DefaultWeaknesses),
     explanation |-> FilledExplanation(DecodedEntry(r, option), option)]

\* C19: in every response of the live variant, each requested option has an
\* entry filled field by field from the decoded entry under that name: the
\* decoded strengths (weaknesses) if a non-empty list, else the placeholder
\* list; the decoded explanation if present, else the placeholder sentence
\* naming the option.  Entries under other names are ignored and an option
\* without an entry gets the three placeholders.
C19_PerOptionFill ==
    \A r \in Requests :
        (Live /\ response[r].status = 200) =>
            /\ DOMAIN response[r].body.analysis = Range(request[r].options)
            /\ \A option \in Range(request[r].options) :
                  /\ response[r].body.analysis[option] =
                        ExpectedEntry(r, option)
                  /\ ~HasKey(OptionsData(r), option) =>
                        IsPlaceholder(response[r].body.analysis[option],
                                      option)

\* a response whose option "a" had a decoded entry without strengths: the
\* placeholder strengths next to the decoded weaknesses and explanation
C19_Witness ==
    \E r \in Requests :
        /\ Live /\ pc[r] = "Responded"
        /\ DecodedEntry(r, <<"a">>) = Without(GoodEntry, K("strengths"))
        /\ response[r].body.analysis[<<"a">>].strengths =
              << <<"Strong capabilities in key areas">> >>
        /\ response[r].body.analysis[<<"a">>].weaknesses = << <<"costly">> >>
        /\ response[r].body.analysis[<<"a">>].explanation =
              <<"a solid choice">>

====
